---- MODULE Spec2Model ----
(***************************************************************************)
(* Model of fiftyone/core/validation.py: the eight validation utilities    *)
(* (validate_image_sample, validate_video_sample, validate_collection,     *)
(* validate_image_collection, validate_video_collection,                   *)
(* validate_collection_label_fields, get_field, get_fields) and their two  *)
(* private helpers.  Every function is pure: a behaviour draws one call     *)
(* (operation and arguments) in Init and the operation's action applies it, *)
(* recording the outcome (normal return with its value, or the exception    *)
(* raised) together with the ordered log of the reads and collaborator      *)
(* calls the function made on its arguments.                                *)
(***************************************************************************)
EXTENDS Integers, Sequences, FiniteSets, TLC

VARIABLES op, sample, coll, field_names, allowed, same_type, allow_none, pc, result

vars == <<op, sample, coll, field_names, allowed, same_type, allow_none, pc, result>>

(***************************************************************************)
(* Bounds of the model.                                                    *)
(***************************************************************************)
\* longest list of field names passed to get_fields
MaxLen == 3
\* longest list of field names passed to validate_collection_label_fields
MaxNames == 3
\* largest number of samples in a collection
MaxElems == 2

(***************************************************************************)
(* Media kinds and the media classifier.                                   *)
(***************************************************************************)
IMAGE == "image"
VIDEO == "video"
\* what fom.get_media_type answers for a file that is neither
UNKNOWN == "unknown"

Filepaths == {"frame.jpg", "clip.mp4", "notes.txt"}

get_media_type(filepath) ==
    CASE filepath = "frame.jpg" -> IMAGE
      [] filepath = "clip.mp4" -> VIDEO
      [] OTHER -> UNKNOWN

(***************************************************************************)
(* Values held by sample fields, with their runtime types.                 *)
(***************************************************************************)
None == [type |-> "NoneType", v |-> 0]

Values ==
    { None,
      [type |-> "Classification", v |-> 1],
      [type |-> "Classification", v |-> 2],
      [type |-> "Detections", v |-> 1] }

\* type(value)
TypeOf(value) == value.type

ValueTypes == {"Classification", "Detections", "NoneType"}

(***************************************************************************)
(* Fields of a schema: a field class and, for embedded documents, the      *)
(* document type it wraps.                                                 *)
(***************************************************************************)
NoDocumentType == "<no document_type>"

EmbeddedClassification ==
    [field |-> "EmbeddedDocumentField", document_type |-> "Classification"]
EmbeddedDetections ==
    [field |-> "EmbeddedDocumentField", document_type |-> "Detections"]
PlainString ==
    [field |-> "StringField", document_type |-> NoDocumentType]

LabelTypes == {"Classification", "Detections", "StringField"}

(***************************************************************************)
(* Outcomes: what a call returned or raised, and the log of what it read.  *)
(***************************************************************************)
NoErr == [kind |-> "", msg |-> "", subject |-> "", field |-> "", names |-> <<>>, found |-> {}]

Call(what, arg) == [call |-> what, arg |-> arg]

NoValue == [kind |-> "none", items |-> <<>>]
One(value) == [kind |-> "value", items |-> <<value>>]
Tuple(values) == [kind |-> "tuple", items |-> values]

Return(value, calls) ==
    [status |-> "returned", value |-> value, err |-> NoErr, calls |-> calls]

Raise(err, calls) ==
    [status |-> "raised", value |-> NoValue, err |-> err, calls |-> calls]

\* raise ValueError(<message>)
ValueError(msg, subject, field, names, found) ==
    [kind |-> "ValueError", msg |-> msg, subject |-> subject, field |-> field,
     names |-> names, found |-> found]

\* statement sequencing: `first` runs, and unless it raised, `rest` runs
Then(first, rest) ==
    IF first.status = "raised"
    THEN first
    ELSE [rest EXCEPT !.calls = first.calls \o rest.calls]

NotStarted == [status |-> "none", value |-> NoValue, err |-> NoErr, calls |-> <<>>]

(***************************************************************************)
(* Media validators.                                                       *)
(***************************************************************************)
validate_image(filepath) ==
    LET actual_media_type == get_media_type(filepath)
        calls == <<Call("get_media_type", filepath)>>
    IN  IF actual_media_type # IMAGE
        THEN Raise(ValueError("requires samples whose filepaths are images",
                              filepath, "", <<>>, {actual_media_type}), calls)
        ELSE Return(NoValue, calls)

\* validate_image_sample classifying every sample, FrameView or not
validate_image_sample_always_classifies(s) ==
    LET read == <<Call("media_type", "")>>
    IN  IF s.media_type # IMAGE
        THEN Raise(ValueError("Expected media type", s.filepath, "", <<>>,
                              {s.media_type}), read)
        ELSE Then(Return(NoValue, read), validate_image(s.filepath))

validate_image_sample(s) ==
    LET read == <<Call("media_type", "")>>
    IN  IF s.media_type # IMAGE
        THEN Raise(ValueError("Expected media type", s.filepath, "", <<>>,
                              {s.media_type}), read)
        ELSE IF s.is_frame_view
             THEN Then(Return(NoValue, read), validate_image(s.filepath))
             ELSE Return(NoValue, read)

validate_video_sample(s) ==
    LET read == <<Call("media_type", "")>>
    IN  IF s.media_type # VIDEO
        THEN Raise(ValueError("Expected media type", s.filepath, "", <<>>,
                              {s.media_type}), read)
        ELSE Return(NoValue, read)

\* isinstance(sample_collection, foc.SampleCollection)
IsSampleCollection(c) == c.class \in {"Dataset", "DatasetView"}

\* validate_collection raising TypeError for an object of the wrong class
validate_collection_type_error(c) ==
    LET calls == <<Call("isinstance", "SampleCollection")>>
    IN  IF ~IsSampleCollection(c)
        THEN Raise([kind |-> "TypeError",
                    msg |-> "Expected samples to be a SampleCollection",
                    subject |-> c.class, field |-> "", names |-> <<>>,
                    found |-> {}], calls)
        ELSE Return(NoValue, calls)

validate_collection(c) ==
    LET calls == <<Call("isinstance", "SampleCollection")>>
    IN  IF ~IsSampleCollection(c)
        THEN Raise(ValueError("Expected samples to be a SampleCollection",
                              c.class, "", <<>>, {}), calls)
        ELSE Return(NoValue, calls)

\* sample_collection[:1]
FirstAtMostOne(filepaths) ==
    SubSeq(filepaths, 1, IF Len(filepaths) < 1 THEN Len(filepaths) ELSE 1)

\* validate_image_collection without the `except: return` for an empty
\* collection: the IndexError escapes
validate_image_collection_empty_unhandled(c) ==
    Then(validate_collection(c),
         IF c.media_type # IMAGE
         THEN Raise(ValueError("Expected collection to have media type",
                               c.class, "", <<>>, {c.media_type}),
                    <<Call("media_type", "")>>)
         ELSE IF c.is_frames
              THEN LET values == FirstAtMostOne(c.filepaths)
                       read == <<Call("media_type", ""), Call("_is_frames", ""),
                                 Call("values", "filepath")>>
                   IN  IF Len(values) = 0
                       THEN Raise([kind |-> "IndexError",
                                   msg |-> "list index out of range",
                                   subject |-> "", field |-> "", names |-> <<>>,
                                   found |-> {}], read)
                       ELSE Then(Return(NoValue, read), validate_image(values[1]))
              ELSE Return(NoValue, <<Call("media_type", ""), Call("_is_frames", "")>>))

validate_image_collection(c) ==
    Then(validate_collection(c),
         IF c.media_type # IMAGE
         THEN Raise(ValueError("Expected collection to have media type",
                               c.class, "", <<>>, {c.media_type}),
                    <<Call("media_type", "")>>)
         ELSE IF c.is_frames
              THEN LET values == FirstAtMostOne(c.filepaths)
                       read == <<Call("media_type", ""), Call("_is_frames", ""),
                                 Call("values", "filepath")>>
                   IN  IF Len(values) = 0
                       \* values[0] raises IndexError, which `except:` swallows
                       THEN Return(NoValue, read)
                       ELSE Then(Return(NoValue, read), validate_image(values[1]))
              ELSE Return(NoValue, <<Call("media_type", ""), Call("_is_frames", "")>>))

\* validate_video_collection testing the media type before the guard
validate_video_collection_guard_last(c) ==
    Then(IF c.media_type # VIDEO
         THEN Raise(ValueError("Expected collection to have media type",
                               c.class, "", <<>>, {c.media_type}),
                    <<Call("media_type", "")>>)
         ELSE Return(NoValue, <<Call("media_type", "")>>),
         validate_collection(c))

validate_video_collection(c) ==
    Then(validate_collection(c),
         IF c.media_type # VIDEO
         THEN Raise(ValueError("Expected collection to have media type",
                               c.class, "", <<>>, {c.media_type}),
                    <<Call("media_type", "")>>)
         ELSE Return(NoValue, <<Call("media_type", "")>>))

(***************************************************************************)
(* Field names.  Sample-level names and, for video collections, names      *)
(* qualified with the "frames." prefix, which refer to the frame schema.   *)
(***************************************************************************)
SampleFieldNames == {"label", "gt"}
FrameFieldNames == {"det", "gt"}

\* "frames." + name, for the names of the model
FramesPrefixed ==
    [n \in {"frames.det", "frames.gt"} |-> IF n = "frames.det" THEN "det" ELSE "gt"]

\* field.startswith("frames.")
StartsWithFrames(name) == name \in DOMAIN FramesPrefixed

\* field[len("frames."):]
StripFrames(name) == FramesPrefixed[name]

RECURSIVE SelectNames(_, _)
SelectNames(names, frame) ==
    IF names = <<>>
    THEN <<>>
    ELSE LET n == Head(names)
             rest == SelectNames(Tail(names), frame)
         IN  IF StartsWithFrames(n) = frame
             THEN <<IF frame THEN StripFrames(n) ELSE n>> \o rest
             ELSE rest

\* fou.split_frame_fields(field_names) -> (sample_fields, frame_fields)
split_frame_fields(names) ==
    [sample_fields |-> SelectNames(names, FALSE),
     frame_fields |-> SelectNames(names, TRUE)]

(***************************************************************************)
(* Arguments that may be given in more than one shape.                     *)
(***************************************************************************)
\* a single field name given as a string
NameStr(n) == [is_str |-> TRUE, str |-> n, list |-> <<>>]
\* a list of field names
NameList(ns) == [is_str |-> FALSE, str |-> "", list |-> ns]

\* allowed_types=None
NoTypes == [shape |-> "none", type |-> "", types |-> {}]
\* a single label type, not in a container
OneType(t) == [shape |-> "type", type |-> t, types |-> {}]
\* a container of types
TypeSet(ts) == [shape |-> "container", type |-> "", types |-> ts]

\* if etau.is_str(field_names): field_names = [field_names]
NormalizeNames(arg) == IF arg.is_str THEN <<arg.str>> ELSE arg.list

\* if not etau.is_container(allowed_label_types): allowed_label_types = [...]
NormalizeTypes(arg) == IF arg.shape # "container" THEN {arg.type} ELSE arg.types

(***************************************************************************)
(* validate_collection_label_fields and _validate_fields.                  *)
(***************************************************************************)
\* try: field.document_type  except: field
ResolveLabelType(field) ==
    IF field.document_type # NoDocumentType
    THEN field.document_type
    ELSE field.field

\* label_types[field_name] = label_type
Put(label_types, field_name, label_type) ==
    [n \in DOMAIN label_types \cup {field_name} |->
        IF n = field_name THEN label_type ELSE label_types[n]]

\* set(label_types.values())
ValuesOf(label_types) == {label_types[n] : n \in DOMAIN label_types}

\* {}
EmptyDict == [n \in {} |-> ""]

\* the for loop of _validate_fields from the i-th name on: the error it
\* raises (NoErr when it completes) and the label_types it has filled
RECURSIVE ValidateFrom(_, _, _, _, _, _)
ValidateFrom(schema, names, allowed_label_types, frames, i, label_types) ==
    IF i > Len(names)
    THEN [err |-> NoErr, label_types |-> label_types]
    ELSE LET field_name == names[i]
         IN  IF field_name \notin DOMAIN schema
             THEN [err |-> ValueError("has no field",
                                      IF frames THEN "frame field" ELSE "sample field",
                                      field_name, <<>>, {}),
                   label_types |-> label_types]
             ELSE LET label_type == ResolveLabelType(schema[field_name])
                  IN  IF label_type \notin allowed_label_types
                      THEN [err |-> ValueError("is not an instance",
                                               IF frames THEN "Frame field"
                                                         ELSE "Sample field",
                                               field_name, <<>>, {label_type}),
                            label_types |-> label_types]
                      ELSE ValidateFrom(schema, names, allowed_label_types, frames,
                                        i + 1, Put(label_types, field_name, label_type))

validate_fields(c, names, allowed_label_types, sametype, frames) ==
    LET schema == IF frames THEN c.frame_schema ELSE c.schema
        calls == <<Call(IF frames THEN "get_frame_field_schema"
                                  ELSE "get_field_schema", "")>>
        loop == ValidateFrom(schema, names, allowed_label_types, frames, 1, EmptyDict)
    IN  IF loop.err # NoErr
        THEN Raise(loop.err, calls)
        ELSE IF sametype /\ Cardinality(ValuesOf(loop.label_types)) > 1
             THEN Raise(ValueError("must have the same type",
                                   IF frames THEN "Frame fields" ELSE "Sample fields",
                                   "", names, ValuesOf(loop.label_types)), calls)
             ELSE Return(NoValue, calls)

\* validate_collection_label_fields validating the sample-level names
\* before the frame-level ones
validate_collection_label_fields_sample_first(c, names_arg, types_arg, sametype) ==
    LET names == NormalizeNames(names_arg)
        allowed_label_types == NormalizeTypes(types_arg)
        split == IF c.media_type = VIDEO
                 THEN split_frame_fields(names)
                 ELSE [sample_fields |-> names, frame_fields |-> <<>>]
        read == Return(NoValue, <<Call("media_type", "")>>)
        frame_part == IF split.frame_fields # <<>>
                      THEN validate_fields(c, split.frame_fields,
                                           allowed_label_types, sametype, TRUE)
                      ELSE Return(NoValue, <<>>)
        sample_part == IF split.sample_fields # <<>>
                       THEN validate_fields(c, split.sample_fields,
                                            allowed_label_types, sametype, FALSE)
                       ELSE Return(NoValue, <<>>)
    IN  Then(validate_collection(c), Then(read, Then(sample_part, frame_part)))

\* validate_collection_label_fields enforcing same_type over all the names
\* at once, sample-level and frame-level together
validate_collection_label_fields_one_group(c, names_arg, types_arg, sametype) ==
    LET names == NormalizeNames(names_arg)
        allowed_label_types == NormalizeTypes(types_arg)
        split == IF c.media_type = VIDEO
                 THEN split_frame_fields(names)
                 ELSE [sample_fields |-> names, frame_fields |-> <<>>]
        read == Return(NoValue, <<Call("media_type", "")>>)
        frame_part == IF split.frame_fields # <<>>
                      THEN validate_fields(c, split.frame_fields,
                                           allowed_label_types, sametype, TRUE)
                      ELSE Return(NoValue, <<>>)
        sample_part == IF split.sample_fields # <<>>
                       THEN validate_fields(c, split.sample_fields,
                                            allowed_label_types, sametype, FALSE)
                       ELSE Return(NoValue, <<>>)
        both == Then(frame_part, sample_part)
        types == {ResolveLabelType(c.frame_schema[split.frame_fields[i]]) :
                      i \in 1..Len(split.frame_fields)}
                 \cup {ResolveLabelType(c.schema[split.sample_fields[i]]) :
                           i \in 1..Len(split.sample_fields)}
        all == IF both.status = "returned" /\ sametype /\ Cardinality(types) > 1
               THEN Raise(ValueError("must have the same type", "Fields", "",
                                     names, types), both.calls)
               ELSE both
    IN  Then(validate_collection(c), Then(read, all))

validate_collection_label_fields(c, names_arg, types_arg, sametype) ==
    LET names == NormalizeNames(names_arg)
        allowed_label_types == NormalizeTypes(types_arg)
        split == IF c.media_type = VIDEO
                 THEN split_frame_fields(names)
                 ELSE [sample_fields |-> names, frame_fields |-> <<>>]
        read == Return(NoValue, <<Call("media_type", "")>>)
        frame_part == IF split.frame_fields # <<>>
                      THEN validate_fields(c, split.frame_fields,
                                           allowed_label_types, sametype, TRUE)
                      ELSE Return(NoValue, <<>>)
        sample_part == IF split.sample_fields # <<>>
                       THEN validate_fields(c, split.sample_fields,
                                            allowed_label_types, sametype, FALSE)
                       ELSE Return(NoValue, <<>>)
    IN  Then(validate_collection(c), Then(read, Then(frame_part, sample_part)))

(***************************************************************************)
(* get_field and get_fields.                                               *)
(***************************************************************************)
\* get_field without the null check
get_field_null_unchecked(s, field_name, allowed_types, allownone) ==
    LET calls == <<Call("getitem", field_name)>>
    IN  IF field_name \notin DOMAIN s.fields
        THEN Raise(ValueError("has no field", s.id, field_name, <<>>, {}), calls)
        ELSE LET value == s.fields[field_name]
             IN  IF allowed_types.shape # "none"
                    /\ TypeOf(value) \notin allowed_types.types
                 THEN Raise(ValueError("is not an instance", s.id, field_name,
                                       <<>>, {TypeOf(value)}), calls)
                 ELSE Return(One(value), calls)

\* get_field with the type check made before the null check
get_field_type_first(s, field_name, allowed_types, allownone) ==
    LET calls == <<Call("getitem", field_name)>>
    IN  IF field_name \notin DOMAIN s.fields
        THEN Raise(ValueError("has no field", s.id, field_name, <<>>, {}), calls)
        ELSE LET value == s.fields[field_name]
             IN  IF allowed_types.shape # "none"
                    /\ TypeOf(value) \notin allowed_types.types
                 THEN Raise(ValueError("is not an instance", s.id, field_name,
                                       <<>>, {TypeOf(value)}), calls)
                 ELSE IF ~allownone /\ value = None
                      THEN Raise(ValueError("is None", s.id, field_name, <<>>, {}),
                                 calls)
                      ELSE Return(One(value), calls)

get_field(s, field_name, allowed_types, allownone) ==
    LET calls == <<Call("getitem", field_name)>>
    IN  IF field_name \notin DOMAIN s.fields
        \* KeyError, re-raised as ValueError
        THEN Raise(ValueError("has no field", s.id, field_name, <<>>, {}), calls)
        ELSE LET value == s.fields[field_name]
             IN  IF ~allownone /\ value = None
                 THEN Raise(ValueError("is None", s.id, field_name, <<>>, {}), calls)
                 ELSE IF allowed_types.shape # "none"
                         /\ TypeOf(value) \notin allowed_types.types
                      THEN Raise(ValueError("is not an instance", s.id, field_name,
                                            <<>>, {TypeOf(value)}), calls)
                      ELSE Return(One(value), calls)

\* the for loop of get_fields from the i-th name on; `acc` holds values,
\* label_types and the calls made so far
RECURSIVE GetFrom(_, _, _, _, _, _, _)
GetFrom(s, names, allowed_types, sametype, allownone, i, acc) ==
    IF i > Len(names)
    THEN [acc EXCEPT !.err = NoErr]
    ELSE LET got == get_field(s, names[i], allowed_types, allownone)
         IN  IF got.status = "raised"
             THEN [acc EXCEPT !.err = got.err, !.calls = acc.calls \o got.calls]
             ELSE LET value == got.value.items[1]
                  IN  GetFrom(s, names, allowed_types, sametype, allownone, i + 1,
                          IF sametype
                          THEN [err |-> NoErr,
                                values |-> Append(acc.values, value),
                                label_types |-> Put(acc.label_types, names[i],
                                                    TypeOf(value)),
                                calls |-> acc.calls \o got.calls]
                          ELSE [acc EXCEPT !.calls = acc.calls \o got.calls])

\* get_fields with null values left out of the same-type comparison
get_fields_null_ignored(s, names, allowed_types, sametype, allownone) ==
    LET loop == GetFrom(s, names, allowed_types, sametype, allownone, 1,
                        [err |-> NoErr, values |-> <<>>,
                         label_types |-> EmptyDict, calls |-> <<>>])
    IN  IF loop.err # NoErr
        THEN Raise(loop.err, loop.calls)
        ELSE IF sametype
                /\ Cardinality(ValuesOf(loop.label_types) \ {"NoneType"}) > 1
             THEN Raise(ValueError("must have the same type", s.id, "", names,
                                   ValuesOf(loop.label_types)), loop.calls)
             ELSE Return(Tuple(loop.values), loop.calls)

get_fields(s, names, allowed_types, sametype, allownone) ==
    LET loop == GetFrom(s, names, allowed_types, sametype, allownone, 1,
                        [err |-> NoErr, values |-> <<>>,
                         label_types |-> EmptyDict, calls |-> <<>>])
    IN  IF loop.err # NoErr
        THEN Raise(loop.err, loop.calls)
        ELSE IF sametype /\ Cardinality(ValuesOf(loop.label_types)) > 1
             THEN Raise(ValueError("must have the same type", s.id, "", names,
                                   ValuesOf(loop.label_types)), loop.calls)
             ELSE Return(Tuple(loop.values), loop.calls)

(***************************************************************************)
(* The calls a behaviour may draw.                                         *)
(***************************************************************************)
BoundedSeq(S, n) == UNION {[1..k -> S] : k \in 0..n}

\* the lists of BoundedSeq(S, n) that name nothing twice
DistinctSeq(S, n) ==
    {q \in BoundedSeq(S, n) : \A i, j \in 1..Len(q) : q[i] = q[j] => i = j}

PartialFunctions(D, R) == UNION {[X -> R] : X \in SUBSET D}

NoFields == [n \in {} |-> None]
NoSchema == [n \in {} |-> PlainString]

\* samples whose media kind is what varies
MediaSamples ==
    {[id |-> "s1", media_type |-> m, filepath |-> f, is_frame_view |-> fv,
      fields |-> NoFields] :
        m \in {IMAGE, VIDEO}, f \in Filepaths, fv \in BOOLEAN}

\* samples whose fields are what varies
FieldSamples ==
    {[id |-> "s1", media_type |-> IMAGE, filepath |-> "frame.jpg",
      is_frame_view |-> FALSE, fields |-> fs] :
        fs \in PartialFunctions(SampleFieldNames, Values)}

Classes == {"Dataset", "list"}

\* collections (and objects that are none) whose media is what varies
MediaCollections ==
    {[class |-> k, media_type |-> m, is_frames |-> fr, filepaths |-> ps,
      schema |-> NoSchema, frame_schema |-> NoSchema] :
        k \in Classes, m \in {IMAGE, VIDEO}, fr \in BOOLEAN,
        ps \in BoundedSeq(Filepaths, MaxElems)}

\* collections whose schemas are what varies, and objects that are no
\* collection
SchemaCollections ==
    {[class |-> "Dataset", media_type |-> m, is_frames |-> FALSE, filepaths |-> <<>>,
      schema |-> sc, frame_schema |-> fsc] :
        m \in {IMAGE, VIDEO},
        sc \in PartialFunctions(SampleFieldNames,
                                {EmbeddedClassification, EmbeddedDetections, PlainString}),
        fsc \in PartialFunctions(FrameFieldNames,
                                 {EmbeddedClassification, EmbeddedDetections})}
    \cup
    {[class |-> "list", media_type |-> m, is_frames |-> FALSE, filepaths |-> <<>>,
      schema |-> [n \in SampleFieldNames |-> EmbeddedClassification],
      frame_schema |-> [n \in FrameFieldNames |-> EmbeddedDetections]] :
        m \in {IMAGE, VIDEO}}

AnySample == CHOOSE s \in MediaSamples : TRUE
AnyCollection == CHOOSE c \in MediaCollections : TRUE

LabelFieldArgs == SampleFieldNames \cup DOMAIN FramesPrefixed

Ops ==
    {"validate_image_sample", "validate_video_sample", "validate_collection",
     "validate_image_collection", "validate_video_collection",
     "validate_collection_label_fields", "get_field", "get_fields"}

Init ==
    /\ pc = "call"
    /\ result = NotStarted
    /\ op \in Ops
    /\ \/ /\ op \in {"validate_image_sample", "validate_video_sample"}
          /\ sample \in MediaSamples
          /\ coll = AnyCollection
          /\ field_names = NameList(<<>>)
          /\ allowed = NoTypes
          /\ same_type = FALSE
          /\ allow_none = TRUE
       \/ /\ op \in {"validate_collection", "validate_image_collection",
                     "validate_video_collection"}
          /\ sample = AnySample
          /\ coll \in MediaCollections
          /\ field_names = NameList(<<>>)
          /\ allowed = NoTypes
          /\ same_type = FALSE
          /\ allow_none = TRUE
       \/ /\ op = "validate_collection_label_fields"
          /\ sample = AnySample
          /\ coll \in SchemaCollections
          /\ field_names \in {NameStr(n) : n \in LabelFieldArgs}
                 \cup {NameList(ns) : ns \in DistinctSeq(LabelFieldArgs, MaxNames)}
          /\ allowed \in {OneType(t) : t \in LabelTypes}
                 \cup {TypeSet(ts) : ts \in SUBSET LabelTypes}
          /\ same_type \in BOOLEAN
          /\ allow_none = TRUE
       \/ /\ op = "get_field"
          /\ sample \in FieldSamples
          /\ coll = AnyCollection
          /\ field_names \in {NameStr(n) : n \in SampleFieldNames}
          /\ allowed \in {NoTypes} \cup {TypeSet(ts) : ts \in SUBSET ValueTypes}
          /\ same_type = FALSE
          /\ allow_none \in BOOLEAN
       \/ /\ op = "get_fields"
          /\ sample \in FieldSamples
          /\ coll = AnyCollection
          /\ field_names \in {NameList(ns) : ns \in BoundedSeq(SampleFieldNames, MaxLen)}
          /\ allowed \in {NoTypes} \cup {TypeSet(ts) : ts \in SUBSET ValueTypes}
          /\ same_type \in BOOLEAN
          /\ allow_none \in BOOLEAN

(***************************************************************************)
(* One action per exposed operation: the drawn call runs to completion.    *)
(***************************************************************************)
Finish(outcome) ==
    /\ result' = outcome
    /\ pc' = "done"
    /\ UNCHANGED <<op, sample, coll, field_names, allowed, same_type, allow_none>>

ValidateImageSample ==
    /\ pc = "call" /\ op = "validate_image_sample"
    /\ Finish(validate_image_sample(sample))

ValidateVideoSample ==
    /\ pc = "call" /\ op = "validate_video_sample"
    /\ Finish(validate_video_sample(sample))

ValidateCollection ==
    /\ pc = "call" /\ op = "validate_collection"
    /\ Finish(validate_collection(coll))

ValidateImageCollection ==
    /\ pc = "call" /\ op = "validate_image_collection"
    /\ Finish(validate_image_collection(coll))

ValidateVideoCollection ==
    /\ pc = "call" /\ op = "validate_video_collection"
    /\ Finish(validate_video_collection(coll))

ValidateCollectionLabelFields ==
    /\ pc = "call" /\ op = "validate_collection_label_fields"
    /\ Finish(validate_collection_label_fields(coll, field_names, allowed, same_type))

GetField ==
    /\ pc = "call" /\ op = "get_field"
    /\ Finish(get_field(sample, field_names.str, allowed, allow_none))

GetFields ==
    /\ pc = "call" /\ op = "get_fields"
    /\ Finish(get_fields(sample, field_names.list, allowed, same_type, allow_none))

Next ==
    \/ ValidateImageSample
    \/ ValidateVideoSample
    \/ ValidateCollection
    \/ ValidateImageCollection
    \/ ValidateVideoCollection
    \/ ValidateCollectionLabelFields
    \/ GetField
    \/ GetFields

Spec == Init /\ [][Next]_vars

(***************************************************************************)
(* Vocabulary of the properties.                                           *)
(***************************************************************************)
Done == pc = "done"
Returned == result.status = "returned"
Raised == result.status = "raised"

\* the calls of the log made to `what`, in order
CallsTo(what) == SelectSeq(result.calls, LAMBDA k : k.call = what)

\* the field names of the call, as a list
GivenNames == IF field_names.is_str THEN <<field_names.str>> ELSE field_names.list

(***************************************************************************)
(* get_field: C8, C10.                                                     *)
(***************************************************************************)
FieldExists == field_names.str \in DOMAIN sample.fields
FieldIsNull == FieldExists /\ sample.fields[field_names.str] = None

\* C8: for an existing field whose value is null and no allowed_types,
\* get_field with allow_none=False fails with ValueError, and with
\* allow_none=True returns the null value; for a field name that does not
\* exist get_field fails whatever allow_none is.
C8_NullField ==
    (Done /\ op = "get_field") =>
        /\ (FieldIsNull /\ allowed = NoTypes /\ ~allow_none) =>
               (Raised /\ result.err.kind = "ValueError" /\ result.err.msg = "is None"
                /\ result.err.field = field_names.str)
        /\ (FieldIsNull /\ allowed = NoTypes /\ allow_none) =>
               (Returned /\ result.value = One(None))
        /\ ~FieldExists => Raised

C8_Witness ==
    /\ Done /\ op = "get_field"
    /\ FieldIsNull /\ allowed = NoTypes /\ ~allow_none
    /\ Raised /\ result.err.msg = "is None"

\* C10: get_field checks existence, then null, then type; allow_none does
\* not exempt a null value from the type check: with allowed_types given and
\* not containing the null type, an existing null field fails even with
\* allow_none=True, and with allow_none=False the null error is reported
\* rather than the type error.
C10_CheckOrder ==
    (Done /\ op = "get_field") =>
        /\ ~FieldExists =>
               (Raised /\ result.err.msg = "has no field")
        /\ (FieldIsNull /\ ~allow_none) =>
               (Raised /\ result.err.msg = "is None")
        /\ (FieldIsNull /\ allow_none /\ allowed.shape = "container"
               /\ "NoneType" \notin allowed.types) =>
               (Raised /\ result.err.msg = "is not an instance"
                /\ result.err.found = {"NoneType"})

C10_Witness ==
    /\ Done /\ op = "get_field"
    /\ FieldIsNull /\ ~allow_none
    /\ allowed.shape = "container" /\ allowed.types # {}
    /\ "NoneType" \notin allowed.types
    /\ Raised /\ result.err.msg = "is None"

(***************************************************************************)
(* get_fields: C1, C9.                                                     *)
(***************************************************************************)
AllNamesExist == \A i \in 1..Len(GivenNames) : GivenNames[i] \in DOMAIN sample.fields

\* the runtime types of the values the names refer to
FetchedTypes == {TypeOf(sample.fields[GivenNames[i]]) : i \in 1..Len(GivenNames)}

\* every name passes get_field's own checks
AllPassGetField ==
    \A i \in 1..Len(GivenNames) :
        get_field(sample, GivenNames[i], allowed, allow_none).status = "returned"

\* the result is the sequence of the values of the names, in their order
PositionallyAligned ==
    /\ Returned
    /\ result.value.kind = "tuple"
    /\ Len(result.value.items) = Len(GivenNames)
    /\ \A i \in 1..Len(GivenNames) :
           One(result.value.items[i]) = get_field(sample, GivenNames[i], NoTypes, TRUE).value

\* C1: for names that all exist on the sample, get_fields with the default
\* options returns a sequence as long as the names whose i-th element
\* equals get_field(sample, names[i]); the same holds with same_type=True
\* whenever the fetched values all have one runtime type.
C1_PositionalRoundTrip ==
    (Done /\ op = "get_fields" /\ AllNamesExist /\ allowed = NoTypes /\ allow_none
          /\ (same_type => Cardinality(FetchedTypes) <= 1))
        => PositionallyAligned

\* C9: with same_type=True, get_fields fails exactly when the fetched
\* values, all of which passed get_field's checks, have more than one
\* distinct runtime type (over the whole list, a null value counting as its
\* own type); otherwise it returns all fetched values in the order of the
\* names, and an empty list of names returns an empty sequence.
C9_SameTypeWholeList ==
    (Done /\ op = "get_fields" /\ same_type /\ AllPassGetField) =>
        /\ Raised <=> Cardinality(FetchedTypes) > 1
        /\ Raised => (/\ result.err.msg = "must have the same type"
                      /\ result.err.names = GivenNames
                      /\ result.err.found = FetchedTypes)
        /\ Returned => (/\ result.value.kind = "tuple"
                        /\ Len(result.value.items) = Len(GivenNames)
                        /\ \A i \in 1..Len(GivenNames) :
                               result.value.items[i] = sample.fields[GivenNames[i]])
        /\ GivenNames = <<>> => (Returned /\ result.value = Tuple(<<>>))

C9_Witness ==
    /\ Done /\ op = "get_fields" /\ same_type /\ AllPassGetField
    /\ Len(GivenNames) >= 2
    /\ FetchedTypes = {"NoneType", "Classification"}
    /\ Raised /\ result.err.msg = "must have the same type"

(***************************************************************************)
(* Media validators and the collection guard: C3, C4, C5.                  *)
(***************************************************************************)
GuardedOps ==
    {"validate_image_collection", "validate_video_collection",
     "validate_collection_label_fields"}

\* C3: for an object that is not a sample collection, each of
\* validate_image_collection, validate_video_collection and
\* validate_collection_label_fields fails with the collection-guard error
\* as its first step: nothing but the isinstance test has happened (no
\* media_type read, no schema looked up, no element fetched, no
\* classification), whatever the other arguments are.
C3_GuardFirst ==
    (Done /\ op \in GuardedOps /\ coll.class \notin {"Dataset", "DatasetView"}) =>
        /\ Raised
        /\ result.err.msg = "Expected samples to be a SampleCollection"
        /\ result.calls = <<Call("isinstance", "SampleCollection")>>
        /\ \A what \in {"media_type", "_is_frames", "values", "get_media_type",
                        "get_field_schema", "get_frame_field_schema"} :
               CallsTo(what) = <<>>

C3_Witness ==
    /\ Done /\ op = "validate_collection_label_fields"
    /\ coll.class = "list" /\ coll.media_type = VIDEO
    /\ Len(GivenNames) >= 2
    /\ Raised /\ result.err.msg = "Expected samples to be a SampleCollection"

FramesImageCollection ==
    /\ coll.class \in {"Dataset", "DatasetView"}
    /\ coll.media_type = IMAGE
    /\ coll.is_frames

\* C4: validate_image_collection on a sample collection with media_type
\* IMAGE whose dataset is a frames dataset and which has no elements returns
\* normally and never invokes the media classifier; on a non-empty such
\* collection the classifier is invoked exactly once, on the first element's
\* filepath, and the call fails exactly when the classifier reports
\* something other than IMAGE.
C4_FramesCollection ==
    (Done /\ op = "validate_image_collection" /\ FramesImageCollection) =>
        /\ coll.filepaths = <<>> =>
               (Returned /\ CallsTo("get_media_type") = <<>>)
        /\ coll.filepaths # <<>> =>
               /\ CallsTo("get_media_type")
                      = <<Call("get_media_type", coll.filepaths[1])>>
               /\ Raised <=> get_media_type(coll.filepaths[1]) # "image"
               /\ Raised =>
                      result.err.msg = "requires samples whose filepaths are images"

C4_Witness ==
    /\ Done /\ op = "validate_image_collection" /\ FramesImageCollection
    /\ coll.filepaths = <<>>
    /\ Returned /\ CallsTo("get_media_type") = <<>>

\* C5: validate_image_sample returns normally exactly when
\* sample.media_type is IMAGE and, if the sample is a FrameView, the
\* classifier reports IMAGE for sample.filepath; the classifier is never
\* invoked for a sample that is not a FrameView or whose media_type is not
\* IMAGE.  validate_video_sample returns normally exactly when
\* sample.media_type is VIDEO and never invokes the classifier.
C5_SampleMedia ==
    /\ (Done /\ op = "validate_image_sample") =>
           /\ Returned <=> (/\ sample.media_type = "image"
                            /\ sample.is_frame_view =>
                                   get_media_type(sample.filepath) = "image")
           /\ Raised <=> ~Returned
           /\ (~sample.is_frame_view \/ sample.media_type # "image") =>
                  CallsTo("get_media_type") = <<>>
           /\ (sample.is_frame_view /\ sample.media_type = "image") =>
                  CallsTo("get_media_type")
                      = <<Call("get_media_type", sample.filepath)>>
    /\ (Done /\ op = "validate_video_sample") =>
           /\ Returned <=> sample.media_type = "video"
           /\ Raised <=> ~Returned
           /\ CallsTo("get_media_type") = <<>>

C5_Witness ==
    /\ Done /\ op = "validate_image_sample"
    /\ sample.media_type = "image" /\ sample.is_frame_view
    /\ sample.filepath = "clip.mp4"
    /\ Raised /\ result.err.msg = "requires samples whose filepaths are images"

(***************************************************************************)
(* Error kinds: C2.                                                        *)
(***************************************************************************)
\* the error kind the taxonomy of causes assigns to each failure message
TaxonomyKind(msg) ==
    CASE msg = "Expected samples to be a SampleCollection" -> "TypeError"
      [] msg = "is not an instance" -> "TypeError"
      [] msg = "must have the same type" -> "TypeError"
      [] msg = "has no field" -> "SchemaError"
      [] msg = "Expected media type" -> "MediaTypeError"
      [] msg = "Expected collection to have media type" -> "MediaTypeError"
      [] msg = "requires samples whose filepaths are images" -> "MediaTypeError"
      [] msg = "is None" -> "ValueError"
      [] OTHER -> "unclassified"

\* the failures each operation can raise
MessagesOf(o) ==
    CASE o = "validate_image_sample" ->
             {"Expected media type", "requires samples whose filepaths are images"}
      [] o = "validate_video_sample" -> {"Expected media type"}
      [] o = "validate_collection" -> {"Expected samples to be a SampleCollection"}
      [] o = "validate_image_collection" ->
             {"Expected samples to be a SampleCollection",
              "Expected collection to have media type",
              "requires samples whose filepaths are images"}
      [] o = "validate_video_collection" ->
             {"Expected samples to be a SampleCollection",
              "Expected collection to have media type"}
      [] o = "validate_collection_label_fields" ->
             {"Expected samples to be a SampleCollection", "has no field",
              "is not an instance", "must have the same type"}
      [] o = "get_field" -> {"has no field", "is None", "is not an instance"}
      [] o = "get_fields" ->
             {"has no field", "is None", "is not an instance",
              "must have the same type"}

\* C2 as stated: the kind of error raised is determined by the cause of the
\* failure (TypeError, SchemaError, MediaTypeError, or ValueError only for a
\* null value while nulls are disallowed), so failures with different
\* causes never carry the same error kind.
C2_KindByCause ==
    (Done /\ Raised) => result.err.kind = TaxonomyKind(result.err.msg)

\* C2 as amended: every failure of the eight operations is raised as
\* ValueError whatever its cause; the cause shows only in the message, each
\* operation raising only the messages of its own checks.
C2_AlwaysValueError ==
    (Done /\ Raised) =>
        /\ result.err.kind = "ValueError"
        /\ result.err.msg \in MessagesOf(op)

C2_Witness ==
    /\ Done /\ Raised
    /\ op = "validate_collection_label_fields"
    /\ result.err.msg = "has no field"
    /\ result.err.kind = "ValueError"
    /\ TaxonomyKind(result.err.msg) = "SchemaError"

(***************************************************************************)
(* validate_collection_label_fields: C6, C7.                               *)
(***************************************************************************)
\* the allowed types of the call, as a set
GivenTypes == IF allowed.shape = "type" THEN {allowed.type} ELSE allowed.types

\* the i-th name is frame-qualified and the collection is a video collection
InFrameGroup(i) ==
    coll.media_type = "video" /\ GivenNames[i] \in {"frames.det", "frames.gt"}

\* the name under which the i-th name is looked up in its group's schema
SchemaName(i) ==
    IF InFrameGroup(i)
    THEN (IF GivenNames[i] = "frames.det" THEN "det" ELSE "gt")
    ELSE GivenNames[i]

GroupSchema(i) == IF InFrameGroup(i) THEN coll.frame_schema ELSE coll.schema

Present(i) == SchemaName(i) \in DOMAIN GroupSchema(i)

\* the document type when the field has one, else the declared type itself
Resolved(i) ==
    LET f == GroupSchema(i)[SchemaName(i)]
    IN  IF f.document_type = "<no document_type>" THEN f.field ELSE f.document_type

Conforms(i) == Present(i) /\ Resolved(i) \in GivenTypes

\* the i-th name is validated before the j-th: the frame group first, each
\* group in the order of the list
Before(i, j) ==
    \/ InFrameGroup(i) /\ ~InFrameGroup(j)
    \/ InFrameGroup(i) = InFrameGroup(j) /\ i < j

\* the i-th name is the first one validated that does not conform
FirstOffender(i) ==
    /\ ~Conforms(i)
    /\ \A j \in 1..Len(GivenNames) : Before(j, i) => Conforms(j)

\* the failure is the missing-field error naming the i-th name
MissingFieldErrorFor(i) ==
    /\ Raised
    /\ result.err.msg = "has no field"
    /\ result.err.field = SchemaName(i)
    /\ result.err.subject = (IF InFrameGroup(i) THEN "frame field" ELSE "sample field")

LabelFieldsCall ==
    /\ Done /\ op = "validate_collection_label_fields"
    /\ coll.class \in {"Dataset", "DatasetView"}

\* a single field name given as a string has the outcome of the
\* one-element list of that name
StringIsOneElementList ==
    field_names.is_str =>
        result = validate_collection_label_fields(
                     coll, NameList(<<field_names.str>>), allowed, same_type)

\* C6 as stated: with same_type=False the call returns normally exactly
\* when every name is present in its group's schema with a resolved type
\* in the allowed set; when some name is absent from its schema the call
\* fails with the missing-field error naming exactly that field; a single
\* name given as a string is treated as a one-element list.
C6_AbsentNameIsReported ==
    (LabelFieldsCall /\ ~same_type) =>
        /\ Returned <=> \A i \in 1..Len(GivenNames) : Conforms(i)
        /\ (\E i \in 1..Len(GivenNames) : ~Present(i)) =>
               \E i \in 1..Len(GivenNames) : ~Present(i) /\ MissingFieldErrorFor(i)
        /\ StringIsOneElementList

\* C6 as amended: the call returns normally exactly when every name
\* conforms; otherwise it fails with the error of the first name validated
\* that does not conform (frame-level names first, each group in list
\* order): the missing-field error naming that field if it is absent from
\* its schema, the type error naming it if its resolved type is not
\* allowed.  An absent name is therefore reported only when no name
\* validated before it fails.
C6_FirstOffenderIsReported ==
    (LabelFieldsCall /\ ~same_type) =>
        /\ Returned <=> \A i \in 1..Len(GivenNames) : Conforms(i)
        /\ Raised <=> ~Returned
        /\ \A i \in 1..Len(GivenNames) :
               FirstOffender(i) =>
                   IF ~Present(i)
                   THEN MissingFieldErrorFor(i)
                   ELSE /\ Raised
                        /\ result.err.msg = "is not an instance"
                        /\ result.err.field = SchemaName(i)
                        /\ result.err.found = {Resolved(i)}
        /\ StringIsOneElementList

\* an absent sample-level name listed first, and a frame-level name with a
\* type that is not allowed, whose error is the one raised
C6_Witness ==
    /\ LabelFieldsCall /\ ~same_type
    /\ coll.media_type = "video"
    /\ Len(GivenNames) >= 2
    /\ ~InFrameGroup(1) /\ ~Present(1)
    /\ InFrameGroup(2) /\ Present(2) /\ ~Conforms(2)
    /\ Raised /\ result.err.msg = "is not an instance"
    /\ result.err.subject = "Frame field"

\* the resolved types of the sample-level names, and of the frame-level ones
GroupTypes(frame) ==
    {Resolved(i) : i \in {j \in 1..Len(GivenNames) : InFrameGroup(j) = frame}}

\* the frame-level names, as looked up, in the order of the list
RECURSIVE FrameNamesFrom(_)
FrameNamesFrom(i) ==
    IF i > Len(GivenNames)
    THEN <<>>
    ELSE (IF InFrameGroup(i) THEN <<SchemaName(i)>> ELSE <<>>) \o FrameNamesFrom(i + 1)

\* C7: with same_type=True on a VIDEO collection whose named fields all
\* exist with allowed types, the call fails exactly when the sample-level
\* names resolve to more than one type or the frame-level names resolve to
\* more than one type; a sample-level type differing from a frame-level
\* type never causes failure; a mismatch confined to the frame-level fields
\* produces an error that refers only to the frame-field group.
C7_SameTypePerGroup ==
    (LabelFieldsCall /\ same_type /\ coll.media_type = "video"
         /\ \A i \in 1..Len(GivenNames) : Conforms(i)) =>
        /\ Raised <=> (Cardinality(GroupTypes(FALSE)) > 1
                          \/ Cardinality(GroupTypes(TRUE)) > 1)
        /\ Raised => result.err.msg = "must have the same type"
        /\ (Cardinality(GroupTypes(TRUE)) > 1 /\ Cardinality(GroupTypes(FALSE)) <= 1) =>
               /\ result.err.subject = "Frame fields"
               /\ result.err.names = FrameNamesFrom(1)
               /\ result.err.found = GroupTypes(TRUE)
        /\ (Cardinality(GroupTypes(FALSE)) > 1 /\ Cardinality(GroupTypes(TRUE)) <= 1) =>
               result.err.subject = "Sample fields"

\* two frame-level fields of different types beside a sample-level field
C7_Witness ==
    /\ LabelFieldsCall /\ same_type /\ coll.media_type = "video"
    /\ \A i \in 1..Len(GivenNames) : Conforms(i)
    /\ Cardinality(GroupTypes(TRUE)) = 2
    /\ Cardinality(GroupTypes(FALSE)) = 1
    /\ Raised /\ result.err.subject = "Frame fields"

====
